---- MODULE Spec2Model ----
(***************************************************************************)
(* Model of git-default-branch (src/src/main.rs): main() and run().        *)
(*                                                                         *)
(* Text representation.  A reference name such as                          *)
(* "refs/remotes/origin/main" is the sequence of its "/"-separated         *)
(* components, <<"refs","remotes","origin","main">>.  A remote name and a  *)
(* branch name are sequences of components too, so that names containing   *)
(* "/" ("origin/fork", "feature/x") are covered.  format! is              *)
(* concatenation; strip_prefix("refs/remotes/origin/") succeeds exactly    *)
(* when the components start with refs, remotes, origin and at least one   *)
(* more component follows (the prefix ends in "/"), and yields the rest.   *)
(***************************************************************************)
EXTENDS Integers, Sequences, FiniteSets, TLC

\* ---------------------------------------------------------------- bounds
NumRemotes == 3
NumBranches == 3

RemotePool ==
  << <<"origin">>, <<"upstream">>, <<"origin", "fork">>, <<"backup">>, <<"mirror">> >>
BranchPool ==
  << <<"main">>, <<"master">>, <<"default">>, <<"feature", "x">>, <<"dev">> >>

Remotes == {RemotePool[i] : i \in 1..NumRemotes}
Branches == {BranchPool[i] : i \in 1..NumBranches}

\* ------------------------------------------------------- Result<String,E>
None == [tag |-> "none"]
Ok(b) == [tag |-> "ok", val |-> b]
Err(m) == [tag |-> "err", msg |-> m]
IsOk(r) == r.tag = "ok"
IsErr(r) == r.tag = "err"

ErrNotRepo == "could not find a git repository"
ErrNotSymbolic == "HEAD is not symbolic"
ErrUtf8 == "invalid utf-8"
ErrInvalidFormat == "Invalid ref format"
ErrNoDefault == "Could not determine default branch"

\* ------------------------------------------------------------ references
Absent == [kind |-> "absent"]
Direct == [kind |-> "direct"]
Symbolic(t) == [kind |-> "symbolic", target |-> t]
\* a symbolic target: its name as bytes, and whether the bytes are UTF-8
Target(n, u) == [name |-> n, utf8 |-> u]

\* format!("refs/remotes/{}/HEAD", remote)
RemoteHeadName(r) == <<"refs", "remotes">> \o r \o <<"HEAD">>
\* format!("refs/heads/{}", name)
LocalName(b) == <<"refs", "heads">> \o b
\* the name git gives the remote-tracking branch b of remote r
TrackingName(r, b) == <<"refs", "remotes">> \o r \o b

RefNames == {RemoteHeadName(r) : r \in Remotes} \cup {LocalName(b) : b \in Branches}

Targets ==
  {Target(TrackingName(r, b), TRUE) : r \in Remotes, b \in Branches}
    \cup {Target(LocalName(b), TRUE) : b \in Branches}
    \cup {Target(<<"refs", "remotes", "origin", "\\xff">>, FALSE)}

HeadValues == {Absent, Direct} \cup {Symbolic(t) : t \in Targets}

\* repo.find_reference(name): Err when the reference does not exist
NotFound == [tag |-> "notfound"]
Found(v) == [tag |-> "found", ref |-> v]
find_reference(rs, n) ==
  IF n \in DOMAIN rs /\ rs[n].kind # "absent" THEN Found(rs[n]) ELSE NotFound

\* str::strip_prefix with the literal of lines 36 and 52
StripLiteral == <<"refs", "remotes", "origin">>
strip_prefix(s, p) ==
  IF Len(s) > Len(p) /\ SubSeq(s, 1, Len(p)) = p
    THEN Ok(SubSeq(s, Len(p) + 1, Len(s)))
    ELSE None

\* lines 31-38 / 47-54: the body of `if let Ok(r) = ...`
ResolveHead(v) ==
  IF v.kind # "symbolic" THEN Err(ErrNotSymbolic)
  ELSE IF ~v.target.utf8 THEN Err(ErrUtf8)
  ELSE LET s == strip_prefix(v.target.name, StripLiteral)
       IN IF s = None THEN Err(ErrInvalidFormat) ELSE s

\* lines 57-61
ProbeNamesMut == <<"master", "main">>
ProbeNames == <<"main", "master">>
ProbeHits(rs) ==
  {i \in 1..Len(ProbeNames) : find_reference(rs, LocalName(<<ProbeNames[i]>>)) # NotFound}
MinOf(S) == CHOOSE i \in S : \A j \in S : i <= j
ProbeMissMut == Ok(<<"master">>)
ProbeMiss == Err(ErrNoDefault)
ProbeLocal(rs) ==
  IF ProbeHits(rs) = {} THEN ProbeMiss ELSE Ok(<<ProbeNames[MinOf(ProbeHits(rs))]>>)

\* ------------------------------------------------------------ state
VARIABLES
  pc,              \* position in main()/run()
  remote,          \* args.remote
  discoverable,    \* whether a repository exists at or above args.dir
  refs,            \* the repository's references (on disk)
  refs0,           \* history: refs when the program started
  result,          \* run()'s return value, None while run() is executing
  seen1, seen2,    \* history: outcome of the first / second HEAD lookup
  refreshOutcome,  \* history: how the external git command ended
  log,             \* history: the sequence of steps run() has taken
  stdout, stderr, exitCode

vars == <<pc, remote, discoverable, refs, refs0, result, seen1, seen2,
          refreshOutcome, log, stdout, stderr, exitCode>>

\* println!/eprintln! write the text followed by a newline
Line(t) == [text |-> t, newline |-> TRUE]

\* the repositories the program is started on
RefsOf(rem, h, O, L) ==
  [n \in RefNames |->
     IF n = RemoteHeadName(rem) THEN h
     ELSE IF \E r \in O : n = RemoteHeadName(r)
       THEN Symbolic(Target(TrackingName(CHOOSE r \in O : n = RemoteHeadName(r),
                                         BranchPool[1]), TRUE))
     ELSE IF \E b \in L : n = LocalName(b) THEN Direct
     ELSE Absent]

InitRefs(rem, d) ==
  IF d
    THEN {RefsOf(rem, h, O, L) :
            h \in HeadValues, O \in SUBSET (Remotes \ {rem}), L \in SUBSET Branches}
    ELSE {[n \in RefNames |-> Absent]}

Init ==
  /\ pc = "discover"
  /\ remote \in Remotes
  /\ discoverable \in BOOLEAN
  /\ refs \in InitRefs(remote, discoverable)
  /\ refs0 = refs
  /\ result = None
  /\ seen1 = None
  /\ seen2 = None
  /\ refreshOutcome = None
  /\ log = <<>>
  /\ stdout = <<>>
  /\ stderr = <<>>
  /\ exitCode = -1

\* ------------------------------------------------------------ run()
\* line 28: let repo = gix::discover(path)?;
AfterDiscoverMut(d) == [pc |-> "first_lookup", result |-> None]
AfterDiscover(d) ==
  IF d THEN [pc |-> "first_lookup", result |-> None]
       ELSE [pc |-> "ret", result |-> Err(ErrNotRepo)]

Discover ==
  /\ pc = "discover"
  /\ pc' = AfterDiscover(discoverable).pc
  /\ result' = AfterDiscover(discoverable).result
  /\ log' = Append(log, IF discoverable THEN "discover_ok" ELSE "discover_err")
  /\ UNCHANGED <<remote, discoverable, refs, refs0, seen1, seen2, refreshOutcome,
                 stdout, stderr, exitCode>>

LookupEvent(l) == IF l = NotFound THEN "lookup_missing" ELSE "lookup_found"

\* lines 30-39
AfterFirstLookupMut(l) ==
  [pc |-> "refresh", result |-> None]
AfterFirstLookup(l) ==
  IF l = NotFound THEN [pc |-> "refresh", result |-> None]
                  ELSE [pc |-> "ret", result |-> ResolveHead(l.ref)]

FirstLookup ==
  /\ pc = "first_lookup"
  /\ LET l == find_reference(refs, RemoteHeadName(remote))
     IN /\ seen1' = l
        /\ pc' = AfterFirstLookup(l).pc
        /\ result' = AfterFirstLookup(l).result
        /\ log' = Append(log, LookupEvent(l))
  /\ UNCHANGED <<remote, discoverable, refs, refs0, seen2, refreshOutcome,
                 stdout, stderr, exitCode>>

\* lines 41-44: git remote set-head <remote> --auto, run in path
SetHeadRemoteMut(r) == <<"origin">>
SetHeadRemote(r) == r

SpawnError == [kind |-> "spawn_error"]
ExitNonZero == [kind |-> "exit_nonzero"]
Written(b) == [kind |-> "written", branch |-> b]
RefreshOutcomes == {SpawnError, ExitNonZero} \cup {Written(b) : b \in Branches}

\* what the git command leaves on disk
SetHead(rs, r, o) ==
  IF o.kind = "written"
    THEN [rs EXCEPT ![RemoteHeadName(r)] = Symbolic(Target(TrackingName(r, o.branch), TRUE))]
    ELSE rs

\* `let _ = ...output();`
AfterRefreshMut(o) ==
  IF o.kind = "written" THEN [pc |-> "second_lookup", result |-> None]
                        ELSE [pc |-> "ret", result |-> Err("git remote set-head failed")]
AfterRefresh(o) == [pc |-> "second_lookup", result |-> None]

Refresh ==
  /\ pc = "refresh"
  /\ \E o \in RefreshOutcomes :
       /\ refreshOutcome' = o
       /\ refs' = SetHead(refs, SetHeadRemote(remote), o)
       /\ pc' = AfterRefresh(o).pc
       /\ result' = AfterRefresh(o).result
  /\ log' = Append(log, "refresh")
  /\ UNCHANGED <<remote, discoverable, refs0, seen1, seen2, stdout, stderr, exitCode>>

\* lines 46-55
AfterSecondLookup(l) ==
  IF l = NotFound THEN [pc |-> "probe", result |-> None]
                  ELSE [pc |-> "ret", result |-> ResolveHead(l.ref)]

SecondLookup ==
  /\ pc = "second_lookup"
  /\ LET l == find_reference(refs, RemoteHeadName(remote))
     IN /\ seen2' = l
        /\ pc' = AfterSecondLookup(l).pc
        /\ result' = AfterSecondLookup(l).result
        /\ log' = Append(log, LookupEvent(l))
  /\ UNCHANGED <<remote, discoverable, refs, refs0, seen1, refreshOutcome,
                 stdout, stderr, exitCode>>

\* lines 57-61
Probe ==
  /\ pc = "probe"
  /\ result' = ProbeLocal(refs)
  /\ pc' = "ret"
  /\ log' = Append(log, "probe")
  /\ UNCHANGED <<remote, discoverable, refs, refs0, seen1, seen2, refreshOutcome,
                 stdout, stderr, exitCode>>

\* ------------------------------------------------------------ main()
\* lines 18-24
mainArmsMut(res) ==
  IF IsOk(res) THEN [out |-> <<Line(res.val)>>, err |-> <<>>, code |-> 0]
               ELSE [out |-> <<Line(res.msg)>>, err |-> <<>>, code |-> 1]
mainArms(res) ==
  IF IsOk(res) THEN [out |-> <<Line(res.val)>>, err |-> <<>>, code |-> 0]
               ELSE [out |-> <<>>, err |-> <<Line(res.msg)>>, code |-> 1]

MainOk ==
  /\ pc = "ret"
  /\ IsOk(result)
  /\ stdout' = stdout \o mainArms(result).out
  /\ stderr' = stderr \o mainArms(result).err
  /\ exitCode' = mainArms(result).code
  /\ pc' = "exited"
  /\ UNCHANGED <<remote, discoverable, refs, refs0, result, seen1, seen2,
                 refreshOutcome, log>>

MainErr ==
  /\ pc = "ret"
  /\ IsErr(result)
  /\ stdout' = stdout \o mainArms(result).out
  /\ stderr' = stderr \o mainArms(result).err
  /\ exitCode' = mainArms(result).code
  /\ pc' = "exited"
  /\ UNCHANGED <<remote, discoverable, refs, refs0, result, seen1, seen2,
                 refreshOutcome, log>>

Next ==
  \/ Discover
  \/ FirstLookup
  \/ Refresh
  \/ SecondLookup
  \/ Probe
  \/ MainOk
  \/ MainErr

Spec == Init /\ [][Next]_vars

\* The program is one synchronous thread: a step that can be taken is taken,
\* and Command::output() returns when the git process has exited.
FairSpec == Spec /\ WF_vars(Next)

TypeOK ==
  /\ pc \in {"discover", "first_lookup", "refresh", "second_lookup", "probe", "ret", "exited"}
  /\ remote \in Remotes
  /\ DOMAIN refs = RefNames
  /\ exitCode \in {-1, 0, 1}

\* ------------------------------------------------------------ properties
Returned == pc \in {"ret", "exited"}
Exists(n) == refs[n].kind # "absent"
HasMain == Exists(<<"refs", "heads", "main">>)
HasMaster == Exists(<<"refs", "heads", "master">>)

\* s starts with "refs/remotes/<r>/"
HasRemotePrefix(s, r) ==
  /\ Len(s) > Len(r) + 2
  /\ SubSeq(s, 1, Len(r) + 2) = <<"refs", "remotes">> \o r

\* the first lookup found a symbolic refs/remotes/<remote>/HEAD -> refs/remotes/<remote>/b
FirstPointsTo(b) ==
  /\ seen1.tag = "found"
  /\ seen1.ref.kind = "symbolic"
  /\ seen1.ref.target = Target(TrackingName(remote, b), TRUE)

\* C1: for every remote R and branch B, when the first lookup finds
\* refs/remotes/R/HEAD as a symbolic reference to refs/remotes/R/B, run
\* succeeds and returns exactly B.
C1_StripsRemotePrefix ==
  Returned => \A b \in Branches : FirstPointsTo(b) => result = Ok(b)

BothLookupsMissed == seen1 = NotFound /\ seen2 = NotFound

\* C2: when refs/remotes/<remote>/HEAD is not found at either lookup, run
\* returns "main" whenever refs/heads/main exists (also when refs/heads/master
\* exists), and "master" only when main is absent and master exists.
C2_ProbeOrder ==
  (Returned /\ BothLookupsMissed) =>
    /\ HasMain => result = Ok(<<"main">>)
    /\ (~HasMain /\ HasMaster) => result = Ok(<<"master">>)
    /\ result = Ok(<<"master">>) => (~HasMain /\ HasMaster)

C2_Witness ==
  /\ pc = "exited"
  /\ BothLookupsMissed
  /\ HasMain /\ HasMaster
  /\ result = Ok(<<"main">>)
  /\ stdout = <<Line(<<"main">>)>>

\* C3: when refs/remotes/<remote>/HEAD is absent at the first lookup and the
\* refresh writes it as a symbolic reference to refs/remotes/<remote>/B, run
\* returns B from the second lookup, whether or not a local main or master
\* exists.
C3_RefreshedHeadWins ==
  (Returned /\ seen1 = NotFound /\ refreshOutcome \in {Written(b) : b \in Branches}) =>
    /\ seen2.tag = "found"
    /\ result = Ok(refreshOutcome.branch)

\* C4: when refs/remotes/<remote>/HEAD is not found at either lookup and
\* neither refs/heads/main nor refs/heads/master exists, run fails with the
\* "Could not determine default branch" error and returns no branch name.
C4_NoDefaultBranch ==
  (Returned /\ BothLookupsMissed /\ ~HasMain /\ ~HasMaster) =>
    /\ result = Err(ErrNoDefault)
    /\ ~IsOk(result)
    /\ pc = "exited" => (stdout = <<>> /\ stderr = <<Line(ErrNoDefault)>>)

C4_Witness ==
  /\ pc = "exited"
  /\ BothLookupsMissed
  /\ ~HasMain /\ ~HasMaster
  /\ Exists(<<"refs", "heads", "default">>)
  /\ result = Err(ErrNoDefault)

\* C5 (as stated): whatever the outcome, the set of references of the
\* repository after the run equals the set before the run.
C5_RefsNeverChange == refs = refs0

\* C5 (amended): the program writes no reference itself; the only reference
\* that can differ from its value before the run is refs/remotes/<remote>/HEAD,
\* and only because the external refresh created it after the first lookup
\* did not find it.  Every other reference keeps its value, and nothing
\* changes when the first lookup finds the reference or no repository is found.
C5_OnlyRefreshWritesRemoteHead ==
  /\ \A n \in RefNames \ {RemoteHeadName(remote)} : refs[n] = refs0[n]
  /\ refs # refs0 =>
       /\ seen1 = NotFound
       /\ refs0[RemoteHeadName(remote)] = Absent
       /\ refreshOutcome \in {Written(b) : b \in Branches}
       /\ refs[RemoteHeadName(remote)] =
            Symbolic(Target(TrackingName(remote, refreshOutcome.branch), TRUE))

C5_Witness ==
  /\ pc = "exited"
  /\ refs # refs0
  /\ remote # <<"origin">>
  /\ refs[RemoteHeadName(remote)].kind = "symbolic"

\* a lookup found refs/remotes/<remote>/HEAD, but it is not symbolic or its
\* target does not start with refs/remotes/<remote>/
BadHead(l) ==
  /\ l.tag = "found"
  /\ \/ l.ref.kind # "symbolic"
     \/ ~HasRemotePrefix(l.ref.target.name, remote)

\* C6: if refs/remotes/<remote>/HEAD is found (first lookup or retry) but is
\* not symbolic, or its target does not start with refs/remotes/<remote>/, run
\* fails at that point: no refresh afterwards and no probe of main/master.
C6_BadHeadFails ==
  Returned =>
    /\ BadHead(seen1) => (IsErr(result) /\ log = <<"discover_ok", "lookup_found">>)
    /\ BadHead(seen2) =>
         (IsErr(result) /\ log = <<"discover_ok", "lookup_missing", "refresh", "lookup_found">>)

RefreshFailed == refreshOutcome \in {SpawnError, ExitNonZero}

\* C7: when the reference is absent at the first lookup and the external
\* refresh fails, run does not fail because of that: it goes on to the retry
\* lookup and the main/master probe, and returns what the probe of the
\* unchanged repository gives.
C7_RefreshOutcomeIgnored ==
  (Returned /\ RefreshFailed) =>
    /\ log = <<"discover_ok", "lookup_missing", "refresh", "lookup_missing", "probe">>
    /\ refs = refs0
    /\ HasMain => result = Ok(<<"main">>)
    /\ (~HasMain /\ HasMaster) => result = Ok(<<"master">>)
    /\ (~HasMain /\ ~HasMaster) => result = Err(ErrNoDefault)

C7_Witness ==
  /\ pc = "exited"
  /\ refreshOutcome = SpawnError
  /\ seen1 = NotFound
  /\ result = Ok(<<"master">>)
  /\ exitCode = 0

ExitedOk ==
  /\ IsOk(result)
  /\ exitCode = 0
  /\ stdout = <<Line(result.val)>>
  /\ stderr = <<>>

ExitedErr ==
  /\ IsErr(result)
  /\ exitCode = 1
  /\ stdout = <<>>
  /\ stderr = <<Line(result.msg)>>

C9_NotARepository ==
  ~discoverable =>
    /\ seen1 = None /\ seen2 = None /\ refreshOutcome = None
    /\ \A i \in 1..Len(log) : log[i] = "discover_err"
    /\ Len(log) <= 1
    /\ stdout = <<>>
    /\ Returned => result = Err(ErrNotRepo)
    /\ pc = "exited" => (exitCode = 1 /\ stderr = <<Line(ErrNotRepo)>>)

C9_Witness ==
  /\ ~discoverable
  /\ pc = "exited"
  /\ log = <<"discover_err">>
  /\ exitCode = 1

Positions(e) == {i \in 1..Len(log) : log[i] = e}
Lookups == Positions("lookup_found") \cup Positions("lookup_missing")

\* C10: the refresh is invoked at most once and only directly after a first
\* lookup that did not find the reference; when the first lookup finds it no
\* command is invoked; the reference is looked up at most twice, and the
\* second lookup happens only after the refresh has completed.
C10_RefreshAndRetryOnce ==
  /\ Cardinality(Positions("refresh")) <= 1
  /\ Cardinality(Lookups) <= 2
  /\ \A i \in Positions("refresh") :
       /\ i > 1 /\ log[i - 1] = "lookup_missing"
       /\ Cardinality({j \in Lookups : j < i}) = 1
       /\ seen1 = NotFound
  /\ (seen1 # None /\ seen1 # NotFound) => (Positions("refresh") = {} /\ refreshOutcome = None)
  /\ \A i \in Lookups, j \in Lookups :
       i < j => (log[j - 1] = "refresh" /\ refreshOutcome # None)
  /\ seen2 # None => refreshOutcome # None

C10_Witness ==
  /\ pc = "exited"
  /\ Cardinality(Lookups) = 2
  /\ Cardinality(Positions("refresh")) = 1
  /\ seen2.tag = "found"
====
